---- MODULE Spec2Model ----
(***************************************************************************)
(* A model of the emotion-to-playlist demo: the helpers of Utils.py (YAML  *)
(* configuration loader, execution-time formatter, SQL Server read/write   *)
(* helpers, logger factory) and the Streamlit page of main.py (classifier, *)
(* playlist lookup, page handler).                                         *)
(*                                                                         *)
(* The four groups of helpers do not share state, so each is explored under*)
(* a specification of its own: SpecDb, SpecLogger, SpecApp, SpecTime.      *)
(* Every action models one whole call of the function it is named after.   *)
(***************************************************************************)
EXTENDS Integers, Sequences, FiniteSets

VARIABLES
    \* ---- SQL Server helpers (Utils.py 64-276) ----
    dbTable,      \* committed rows of the table "songs", in insertion order
    helperConns,  \* connections opened by a helper call and still open
    callerConn,   \* state of the connection handle the caller owns
    dbLast,       \* what the last helper call was given and what it did
    \* ---- logger factory (Utils.py 279-319) ----
    clock,        \* datetime.datetime.now(), in whole seconds
    loggers,      \* the logging module's registry: name -> logger
    logLast,      \* the last get_logger call and its outcome
    logCalls,     \* number of get_logger calls made so far
    \* ---- configuration loader and Streamlit page (Utils.py 17-38, main.py) ----
    configFile,   \* the YAML document at the configured path
    songsDir,     \* emotion label -> os.listdir() of <Songs>/<label>
    pc,           \* "start", "ready", "exited" (sys.exit) or "crashed"
    configs,      \* module-level configs of main.py
    confLast,     \* outcome of the load_config call
    img,          \* img_file_buffer of the current run
    page,         \* what the current run of main did, in order
    \* ---- get_execution_time (Utils.py 41-58) ----
    timeArgs,     \* the (start, end) pair handed to get_execution_time
    timeLast      \* outcome of the call

dbVars   == <<dbTable, helperConns, callerConn, dbLast>>
logVars  == <<clock, loggers, logLast, logCalls>>
appVars  == <<configFile, songsDir, pc, configs, confLast, img, page>>
timeVars == <<timeArgs, timeLast>>
vars     == <<dbVars, logVars, appVars, timeVars>>

(***************************************************************************)
(* Bounds of the model.                                                    *)
(***************************************************************************)
MaxRows == 2        \* rows the table may hold
MaxDfRows == 2      \* rows of a value_df handed to a write
MaxOpen == 2        \* helper-opened connections that may stay open
MaxLogCalls == 3    \* get_logger calls in one behaviour
MaxClock == 1       \* seconds the clock may advance
MaxFiles == 2       \* files in one emotion directory
MaxScore == 1       \* model output scores are drawn from 0..MaxScore

Range(s) == {s[i] : i \in 1..Len(s)}

\* All sequences over S of length 0..n.
RECURSIVE SeqsUpTo(_, _)
SeqsUpTo(S, n) ==
    IF n = 0 THEN {<<>>}
    ELSE LET shorter == SeqsUpTo(S, n - 1)
         IN shorter \cup {Append(s, x) : s \in {t \in shorter : Len(t) = n - 1}, x \in S}

(***************************************************************************)
(*                         SQL Server helpers                              *)
(***************************************************************************)
\* A cell value as the driver hands it over: a Python int or a Python str,
\* s being its text.
PyInt(s) == [t |-> "int", s |-> s]
PyStr(s) == [t |-> "str", s |-> s]

\* The database holds one table, songs(id INT NOT NULL, name VARCHAR NOT NULL).
TableName == "songs"
TableColumns == <<"id", "name">>
ColumnType == [c \in Range(TableColumns) |-> IF c = "id" THEN "int" ELSE "str"]
RowValues == {<<PyInt("1"), PyStr("a")>>, <<PyInt("2"), PyStr("b")>>}

\* The arguments the helpers are called with.
TableNames == {"songs", "missing"}
ColumnLists == {<<"id", "name">>, <<"name", "id">>, <<"id">>}
Queries == {[from |-> t, select |-> c] : t \in TableNames, c \in ColumnLists}

ColumnIndex(c) == CHOOSE i \in 1..Len(TableColumns) : TableColumns[i] = c

\* A value_df: column labels and rows; shape = (Len(rows), Len(columns)).
DataFrame(rows, cols) == [columns |-> cols, rows |-> rows]
Project(row, cols) == [j \in 1..Len(cols) |-> row[ColumnIndex(cols[j])]]
DataFrames ==
    {DataFrame([i \in 1..Len(rs) |-> Project(rs[i], cs)], cs) :
        rs \in SeqsUpTo(RowValues, MaxDfRows), cs \in ColumnLists}

\* cursor.execute(sql); cursor.fetchall(); cursor.description, as SQL Server
\* answers them: an unknown table fails the query, otherwise the rows come
\* back in table order with the selected columns.
CursorExecute(table, sql) ==
    IF sql.from # TableName
    THEN [ok |-> FALSE, description |-> <<>>, data |-> <<>>]
    ELSE [ok |-> TRUE,
          description |-> [j \in 1..Len(sql.select) |->
                              <<sql.select[j], ColumnType[sql.select[j]]>>],
          data |-> [i \in 1..Len(table) |-> Project(table[i], sql.select)]]

\* np.array(data): NumPy finds one dtype for the whole array. Integers stay
\* integers and strings stay strings, but a mix of both becomes an array of
\* strings (dtype <U..): every integer is replaced by its text.
np_array(data) ==
    LET kinds == {data[i][j].t : i \in 1..Len(data), j \in 1..Len(data[1])}
    IN IF kinds = {"int", "str"}
       THEN [i \in 1..Len(data) |-> [j \in 1..Len(data[i]) |-> PyStr(data[i][j].s)]]
       ELSE data

NoFrame == DataFrame(<<>>, <<>>)

\* What a helper call reports: how it ended, the frame it returned, what the
\* cursor handed over, how many statements ran, how many connections it
\* opened and closed, the rows it committed.
CallResult(outcome, frame, cur, executed, rows) ==
    [outcome |-> outcome, frame |-> frame,
     description |-> cur.description, fetched |-> cur.data,
     executed |-> executed, opened |-> 0, closed |-> 0, committed |-> rows]

NoCursor == [ok |-> FALSE, description |-> <<>>, data |-> <<>>]

\* read_from_mssql_db(db_con, sql)
read_from_mssql_db_con(table, sql) ==
    LET cur == CursorExecute(table, sql)
        cols == [i \in 1..Len(cur.description) |-> cur.description[i][1]]
    IN IF ~cur.ok
       THEN CallResult("QueryError", NoFrame, cur, 1, <<>>)
       ELSE IF Len(cur.data) > 0
            THEN CallResult("returned", DataFrame(np_array(cur.data), cols), cur, 1, <<>>)
            ELSE CallResult("returned", DataFrame(<<>>, cols), cur, 1, <<>>)

\* get_mssql_db_connection(...); <body>; conn.close(): the server is taken
\* to accept the connection, and the close is reached only when the body
\* returns.
WithOwnConnection(r) ==
    [r EXCEPT !.opened = 1, !.closed = IF r.outcome = "returned" THEN 1 ELSE 0]

\* read_from_mssql_db(server, db_name, username, password, sql)
read_from_mssql_db_cred(table, sql) ==
    WithOwnConnection(read_from_mssql_db_con(table, sql))

\* read_from_mssql_db(server, db_name, sql)
read_from_mssql_db_trusted(table, sql) ==
    WithOwnConnection(read_from_mssql_db_con(table, sql))

\* cursor.executemany("INSERT INTO t (cols) VALUES (?,..)", rows) as SQL
\* Server answers it: the table must exist, the column list must name every
\* column once, and there is one placeholder per column of value_df.
InsertAccepted(table_name, column_list, value_df) ==
    /\ table_name = TableName
    /\ Range(column_list) = Range(TableColumns)
    /\ Len(column_list) = Len(TableColumns)
    /\ Len(value_df.columns) = Len(column_list)
    /\ \A i \in 1..Len(value_df.rows) : \A j \in 1..Len(column_list) :
           value_df.rows[i][j].t = ColumnType[column_list[j]]

InsertedRows(column_list, value_df) ==
    [i \in 1..Len(value_df.rows) |->
        [k \in 1..Len(TableColumns) |->
            value_df.rows[i][CHOOSE j \in 1..Len(column_list) :
                                 column_list[j] = TableColumns[k]]]]

\* The same helper without its guard: executemany is handed an empty list,
\* which the driver refuses.
write_to_mssql_db_con_unguarded(table_name, column_list, value_df) ==
    IF Len(value_df.rows) > 0 /\ InsertAccepted(table_name, column_list, value_df)
    THEN CallResult("returned", NoFrame, NoCursor, 1, InsertedRows(column_list, value_df))
    ELSE CallResult("QueryError", NoFrame, NoCursor, 1, <<>>)

\* write_to_mssql_db(db_con, table_name, column_list, value_df)
write_to_mssql_db_con(table_name, column_list, value_df) ==
    IF Len(value_df.rows) = 0
    THEN CallResult("ValueError", NoFrame, NoCursor, 0, <<>>)
    ELSE IF InsertAccepted(table_name, column_list, value_df)
         THEN CallResult("returned", NoFrame, NoCursor, 1,
                         InsertedRows(column_list, value_df))
         ELSE CallResult("QueryError", NoFrame, NoCursor, 1, <<>>)

\* write_to_mssql_db(server, db_name, username, password, table_name, column_list, value_df)
write_to_mssql_db_cred(table_name, column_list, value_df) ==
    WithOwnConnection(write_to_mssql_db_con(table_name, column_list, value_df))

\* write_to_mssql_db(server, db_name, table_name, column_list, value_df)
write_to_mssql_db_trusted(table_name, column_list, value_df) ==
    WithOwnConnection(write_to_mssql_db_con(table_name, column_list, value_df))

\* A call as the properties read it: the helper, its overload, the table and the
\* columns it was given, the rows of its value_df, and its result.
DbCall(op, overload, table_name, column_list, nrows, r) ==
    [op |-> op, overload |-> overload, table_name |-> table_name,
     column_list |-> column_list, nrows |-> nrows, r |-> r]

DbIdle ==
    /\ dbTable = <<>>
    /\ helperConns = 0
    /\ callerConn = "open"
    /\ dbLast = DbCall("none", "none", "", <<>>, 0,
                       CallResult("none", NoFrame, NoCursor, 0, <<>>))

\* The effect of a finished call on the state: committed rows reach the
\* table, a connection opened and not closed stays open.
DbApply(op, overload, table_name, column_list, nrows, r) ==
    /\ Len(dbTable) + Len(r.committed) <= MaxRows
    /\ helperConns + (r.opened - r.closed) <= MaxOpen
    /\ dbTable' = dbTable \o r.committed
    /\ helperConns' = helperConns + (r.opened - r.closed)
    /\ dbLast' = DbCall(op, overload, table_name, column_list, nrows, r)

ReadCon ==
    /\ callerConn = "open"
    /\ \E sql \in Queries :
           DbApply("read", "con", sql.from, sql.select, 0,
                   read_from_mssql_db_con(dbTable, sql))
    /\ UNCHANGED <<callerConn, logVars, appVars, timeVars>>

ReadCred ==
    /\ \E sql \in Queries :
           DbApply("read", "cred", sql.from, sql.select, 0,
                   read_from_mssql_db_cred(dbTable, sql))
    /\ UNCHANGED <<callerConn, logVars, appVars, timeVars>>

ReadTrusted ==
    /\ \E sql \in Queries :
           DbApply("read", "trusted", sql.from, sql.select, 0,
                   read_from_mssql_db_trusted(dbTable, sql))
    /\ UNCHANGED <<callerConn, logVars, appVars, timeVars>>

WriteCon ==
    /\ callerConn = "open"
    /\ \E t \in TableNames, cl \in ColumnLists, df \in DataFrames :
           DbApply("write", "con", t, cl, Len(df.rows),
                   write_to_mssql_db_con(t, cl, df))
    /\ UNCHANGED <<callerConn, logVars, appVars, timeVars>>

WriteCred ==
    /\ \E t \in TableNames, cl \in ColumnLists, df \in DataFrames :
           DbApply("write", "cred", t, cl, Len(df.rows),
                   write_to_mssql_db_cred(t, cl, df))
    /\ UNCHANGED <<callerConn, logVars, appVars, timeVars>>

WriteTrusted ==
    /\ \E t \in TableNames, cl \in ColumnLists, df \in DataFrames :
           DbApply("write", "trusted", t, cl, Len(df.rows),
                   write_to_mssql_db_trusted(t, cl, df))
    /\ UNCHANGED <<callerConn, logVars, appVars, timeVars>>

DbNext ==
    \/ ReadCon
    \/ ReadCred
    \/ ReadTrusted
    \/ WriteCon
    \/ WriteCred
    \/ WriteTrusted

(***************************************************************************)
(*                           Logger factory                                *)
(***************************************************************************)
LoggingPaths == {"logs"}
LoggerNames == {"app", "db"}

\* os.path.join(logging_path, '<logger_name>_<now, to the second>.log')
LogPath(logging_path, logger_name, now) == <<logging_path, logger_name, now>>
LogPathsAll == {LogPath(p, n, t) : p \in LoggingPaths, n \in LoggerNames, t \in 0..MaxClock}

\* A logger the logging module has not created yet.
NoLogger == [exists |-> FALSE, handlers |-> <<>>, level |-> "NOTSET", propagate |-> TRUE]

LogResult(outcome, registry, key) ==
    [outcome |-> outcome, registry |-> registry, key |-> key]

\* The guard as its message words it: neither file nor console writing.
MisconfiguredIntended(write_to_file, write_to_console) ==
    ~write_to_file /\ ~write_to_console

\* Line 306: if not write_to_file and write_to_console
Misconfigured(write_to_file, write_to_console) ==
    ~write_to_file /\ write_to_console

\* get_logger(logging_path, logger_name, write_to_file, write_to_console, debug).
\* logging.getLogger(log_path) returns the logger registered under that name,
\* creating it on first use, so handlers are added to whatever it holds.
get_logger(registry, now, logging_path, logger_name, write_to_file, write_to_console, debug) ==
    LET log_path == LogPath(logging_path, logger_name, now)
        logger == [registry[log_path] EXCEPT
                      !.exists = TRUE, !.propagate = FALSE, !.level = "INFO"]
        withFile == IF write_to_file
                    THEN [logger EXCEPT !.handlers = Append(@, "FileHandler")]
                    ELSE logger
        withConsole == IF write_to_console
                       THEN [withFile EXCEPT !.handlers = Append(@, "StreamHandler")]
                       ELSE withFile
        final == IF debug THEN [withConsole EXCEPT !.level = "DEBUG"] ELSE withConsole
    IN IF Misconfigured(write_to_file, write_to_console)
       THEN LogResult("ValueError", [registry EXCEPT ![log_path] = logger], log_path)
       ELSE LogResult("returned", [registry EXCEPT ![log_path] = final], log_path)

LogCall(r, wf, wc, debug, before) ==
    [outcome |-> r.outcome, key |-> r.key, write_to_file |-> wf,
     write_to_console |-> wc, debug |-> debug,
     \* the logger as the caller holds it when the call ends
     logger |-> r.registry[r.key],
     \* whether the name was registered before the call
     existed |-> before]

LogIdle ==
    /\ clock = 0
    /\ loggers = [k \in LogPathsAll |-> NoLogger]
    /\ logCalls = 0
    /\ logLast = [outcome |-> "none", key |-> LogPath("logs", "app", 0),
                  write_to_file |-> FALSE, write_to_console |-> FALSE,
                  debug |-> FALSE, logger |-> NoLogger, existed |-> FALSE]

GetLogger ==
    /\ logCalls < MaxLogCalls
    /\ \E p \in LoggingPaths, n \in LoggerNames, wf \in BOOLEAN, wc \in BOOLEAN, d \in BOOLEAN :
           LET r == get_logger(loggers, clock, p, n, wf, wc, d)
           IN /\ loggers' = r.registry
              /\ logLast' = LogCall(r, wf, wc, d, loggers[r.key].exists)
    /\ logCalls' = logCalls + 1
    /\ UNCHANGED <<clock, dbVars, appVars, timeVars>>

\* A second passes.
Tick ==
    /\ clock < MaxClock
    /\ clock' = clock + 1
    /\ UNCHANGED <<loggers, logLast, logCalls, dbVars, appVars, timeVars>>

LogNext ==
    \/ GetLogger
    \/ Tick

(***************************************************************************)
(*                        Configuration loader                             *)
(***************************************************************************)
\* A parsed YAML value: a mapping (its leaves as <<key path, value>>) or None.
Dict(items) == [kind |-> "dict", items |-> items]
EmptyDict == Dict({})
NoneValue == [kind |-> "NoneType", items |-> {}]

\* The documents the configured path may hold, and what yaml.safe_load makes
\* of each: a mapping, an empty mapping ("{}"), None (an empty file), or a
\* yaml.YAMLError.
Documents == {"songs.yml", "playlists.yml", "braces.yml", "empty.yml", "broken.yml"}
YamlContent ==
    [d \in Documents |->
        CASE d = "songs.yml" ->
                 Dict({<<"data.model_path", "model.h5">>, <<"data.Songs", "Songs">>})
          [] d = "playlists.yml" ->
                 Dict({<<"data.model_path", "model.h5">>, <<"data.Songs", "Playlists">>})
          [] d = "braces.yml" -> EmptyDict
          [] OTHER -> NoneValue]
WellFormed(d) == d # "broken.yml"

safe_load(conf_file) ==
    IF WellFormed(conf_file)
    THEN [ok |-> TRUE, value |-> YamlContent[conf_file]]
    ELSE [ok |-> FALSE, value |-> NoneValue]

\* load_config without the sys.exit of its except branch: conf = {} is returned.
load_config_no_exit(file_path) ==
    LET parsed == safe_load(file_path)
    IN IF parsed.ok
       THEN [outcome |-> "returned", value |-> parsed.value]
       ELSE [outcome |-> "returned", value |-> EmptyDict]

\* load_config(file_path)
load_config(file_path) ==
    LET parsed == safe_load(file_path)
    IN IF parsed.ok
       THEN [outcome |-> "returned", value |-> parsed.value]
       ELSE [outcome |-> "SystemExit", value |-> NoneValue]

\* configs['data'][key]
HasKey(conf, key) == \E it \in conf.items : it[1] = key
Lookup(conf, key) == (CHOOSE it \in conf.items : it[1] = key)[2]

(***************************************************************************)
(*                           Streamlit page                                *)
(***************************************************************************)
\* class_dict = {0:'Angry',1:'Happy',2:'Neutral',3:'Sad'}
class_dict ==
    [i \in 0..3 |-> CASE i = 0 -> "Angry" [] i = 1 -> "Happy"
                      [] i = 2 -> "Neutral" [] OTHER -> "Sad"]
Labels == {class_dict[i] : i \in DOMAIN class_dict}
SongRoots == {"Songs", "Playlists"}

\* A captured image is told apart by the four scores the loaded model gives
\* it; the camera control hands over an image or None.
Scores == 0..MaxScore
Images == {[kind |-> "image", shape |-> <<>>, scores |-> v] : v \in [1..4 -> Scores]}
NoImage == [kind |-> "None", shape |-> <<>>, scores |-> <<>>]

\* preprocess(image): a (1, 48, 48, 1) grayscale tensor.
preprocess(image) ==
    [kind |-> "tensor", shape |-> <<1, 48, 48, 1>>, scores |-> image.scores]

\* model.predict_on_batch(img_tensor): one row of four scores.
predict_on_batch(img_tensor) == <<img_tensor.scores>>

\* np.array(result).argmax(): the 0-based index, in the flattened array, of
\* the first entry no later entry exceeds.
Flatten(result) == result[1]
RECURSIVE ArgmaxScan(_, _, _)
ArgmaxScan(flat, i, best) ==
    IF i > Len(flat) THEN best - 1
    ELSE ArgmaxScan(flat, i + 1, IF flat[i] > flat[best] THEN i ELSE best)
argmax(result) == ArgmaxScan(Flatten(result), 2, 1)

\* A classifier whose argmax keeps the last of several equal maxima.
RECURSIVE ArgmaxScanLast(_, _, _)
ArgmaxScanLast(flat, i, best) ==
    IF i > Len(flat) THEN best - 1
    ELSE ArgmaxScanLast(flat, i + 1, IF flat[i] >= flat[best] THEN i ELSE best)
classifer_last_max(img_tensor) ==
    class_dict[ArgmaxScanLast(Flatten(predict_on_batch(img_tensor)), 2, 1)]

\* classifer(img_tensor)
classifer(img_tensor) ==
    LET result == predict_on_batch(img_tensor)
        label == argmax(result)
    IN class_dict[label]

\* The spreadsheet k of a directory: where its ID column stands depends on
\* the file, and every cell names its column, directory, file and row.
SheetColumns(k) ==
    IF k % 2 = 1 THEN <<"ID", "Title", "Artist">> ELSE <<"Title", "ID", "Artist">>
SheetRows == 2
read_excel(path) ==
    LET cols == SheetColumns(path[3])
    IN DataFrame([r \in 1..SheetRows |->
                     [j \in 1..Len(cols) |-> <<cols[j], path[1], path[2], path[3], r>>]],
                 cols)

\* DataFrame.drop(label, axis=1)
RECURSIVE Without(_, _, _)
Without(seq, cols, label) ==
    IF seq = <<>> THEN <<>>
    ELSE IF Head(cols) = label
         THEN Without(Tail(seq), Tail(cols), label)
         ELSE <<Head(seq)>> \o Without(Tail(seq), Tail(cols), label)
drop(frame, label) ==
    DataFrame([r \in 1..Len(frame.rows) |-> Without(frame.rows[r], frame.columns, label)],
              Without(frame.columns, frame.columns, label))

\* A lookup that reads the last file of the listing.
fetch_song_list_last(dirs, conf, emo_class) ==
    LET emo_class_folder == <<Lookup(conf, "data.Songs"), emo_class>>
        listing == dirs[emo_class_folder]
        song_excel_path == <<emo_class_folder[1], emo_class_folder[2], listing[Len(listing)]>>
    IN drop(read_excel(song_excel_path), "ID")

\* fetch_song_list(emo_class)
fetch_song_list(dirs, conf, emo_class) ==
    LET emo_class_folder == <<Lookup(conf, "data.Songs"), emo_class>>
        listing == dirs[emo_class_folder]
        song_excel_path == <<emo_class_folder[1], emo_class_folder[2], listing[1]>>
    IN drop(read_excel(song_excel_path), "ID")

\* One thing a run of the page does.
Did(op, label, color, frame) ==
    [op |-> op, label |-> label, color |-> color, frame |-> frame]

\* st.subheader(...); fetch_song_list(emo_class); st.dataframe(song_list_df)
Branch(dirs, conf, emo_class, color) ==
    LET song_list_df == fetch_song_list(dirs, conf, emo_class)
    IN << Did("subheader", emo_class, color, NoFrame),
          Did("fetch_song_list", emo_class, "", song_list_df),
          Did("dataframe", "", "", song_list_df) >>

\* A page that shows the table before the label.
main_table_first(dirs, conf, img_file_buffer) ==
    LET emo_class == classifer(preprocess(img_file_buffer))
        song_list_df == fetch_song_list(dirs, conf, emo_class)
    IN IF img_file_buffer = NoImage
       THEN << Did("markdown", "", "white", NoFrame), Did("camera_input", "", "", NoFrame) >>
       ELSE << Did("markdown", "", "white", NoFrame), Did("camera_input", "", "", NoFrame),
               Did("preprocess", "", "", NoFrame), Did("classifer", emo_class, "", NoFrame),
               Did("fetch_song_list", emo_class, "", song_list_df),
               Did("dataframe", "", "", song_list_df),
               Did("subheader", emo_class, "", NoFrame) >>

\* main()
main(dirs, conf, img_file_buffer) ==
    LET head == << Did("markdown", "", "white", NoFrame),
                   Did("camera_input", "", "", NoFrame) >>
    IN IF img_file_buffer = NoImage
       THEN head
       ELSE LET img_tensor == preprocess(img_file_buffer)
                emo_class == classifer(img_tensor)
                ran == << Did("preprocess", "", "", NoFrame),
                          Did("classifer", emo_class, "", NoFrame) >>
            IN head \o ran \o
               (CASE emo_class = "Angry" -> Branch(dirs, conf, emo_class, "red")
                  [] emo_class = "Happy" -> Branch(dirs, conf, emo_class, "green")
                  [] emo_class = "Neutral" -> Branch(dirs, conf, emo_class, "")
                  [] emo_class = "Sad" -> Branch(dirs, conf, emo_class, "red")
                  [] OTHER -> <<>>)

\* The listings a directory may give: one to MaxFiles distinct files, in any
\* order.
Listings ==
    {l \in SeqsUpTo(1..MaxFiles, MaxFiles) :
        Len(l) > 0 /\ \A i, j \in 1..Len(l) : i # j => l[i] # l[j]}

AppIdle ==
    /\ configFile = "songs.yml"
    /\ songsDir = [d \in SongRoots \X Labels |-> <<1>>]
    /\ pc = "start"
    /\ configs = EmptyDict
    /\ confLast = [outcome |-> "none", value |-> NoneValue]
    /\ img = NoImage
    /\ page = <<>>

\* Every emotion directory of every root lists the same file numbers in the
\* same order; the files themselves differ from directory to directory.
AppInit ==
    /\ configFile \in Documents
    /\ \E l \in Listings : songsDir = [d \in SongRoots \X Labels |-> l]
    /\ pc = "start"
    /\ configs = EmptyDict
    /\ confLast = [outcome |-> "none", value |-> NoneValue]
    /\ img = NoImage
    /\ page = <<>>

\* main.py 17-19: the module-level load of the configuration and the model.
Startup ==
    /\ pc = "start"
    /\ LET r == load_config(configFile)
       IN /\ confLast' = r
          /\ configs' = IF r.outcome = "returned" THEN r.value ELSE configs
          /\ pc' = IF r.outcome # "returned" THEN "exited"
                   ELSE IF r.value.kind = "dict" /\ HasKey(r.value, "data.model_path")
                             /\ HasKey(r.value, "data.Songs")
                        THEN "ready"
                        ELSE "crashed"
    /\ UNCHANGED <<configFile, songsDir, img, page, dbVars, logVars, timeVars>>

\* One run of the page: the camera control gives None or a captured image.
Main ==
    /\ pc = "ready"
    /\ \E capture \in Images \cup {NoImage} :
           /\ img' = capture
           /\ page' = main(songsDir, configs, capture)
    /\ UNCHANGED <<configFile, songsDir, pc, configs, confLast, dbVars, logVars, timeVars>>

AppNext ==
    \/ Startup
    \/ Main

(***************************************************************************)
(*                         get_execution_time                              *)
(***************************************************************************)
\* Time is counted in tenths of a second. A datetime.datetime is a point in
\* time, a float a number of seconds (time.time()).
Instants == {0, 15, 600, 36605, 864000, 1730000}
TimeValue(kind, v) == [kind |-> kind, v |-> v]
TenthsPerDay == 864000

\* end - start
Subtract(end, start) ==
    IF end.kind = "datetime" /\ start.kind = "datetime"
    THEN [ok |-> TRUE, value |-> TimeValue("timedelta", end.v - start.v)]
    ELSE IF end.kind = "float" /\ start.kind = "float"
         THEN [ok |-> TRUE, value |-> TimeValue("float", end.v - start.v)]
         ELSE [ok |-> FALSE, value |-> TimeValue("none", 0)]

\* datetime.timedelta(seconds=x): x must be a number; the result is
\* normalised to days, seconds in 0..86399, and microseconds.
timedelta(x) ==
    IF x.kind = "float"
    THEN [ok |-> TRUE,
          days |-> x.v \div TenthsPerDay,
          seconds |-> (x.v % TenthsPerDay) \div 10,
          microseconds |-> (x.v % 10) * 100000]
    ELSE [ok |-> FALSE, days |-> 0, seconds |-> 0, microseconds |-> 0]

Digit(n) == CASE n = 0 -> "0" [] n = 1 -> "1" [] n = 2 -> "2" [] n = 3 -> "3"
              [] n = 4 -> "4" [] n = 5 -> "5" [] n = 6 -> "6" [] n = 7 -> "7"
              [] n = 8 -> "8" [] OTHER -> "9"

\* "%d" of n >= 0
RECURSIVE Decimal(_)
Decimal(n) == IF n < 10 THEN <<Digit(n)>> ELSE Decimal(n \div 10) \o <<Digit(n % 10)>>
\* "%d"
Signed(n) == IF n < 0 THEN <<"-">> \o Decimal(0 - n) ELSE Decimal(n)
\* "%0<w>d" of n >= 0
RECURSIVE Padded(_, _)
Padded(n, w) ==
    IF w = 0 THEN <<>> ELSE Padded(n \div 10, w - 1) \o <<Digit(n % 10)>>

\* str(timedelta): "[D day[s], ]H:MM:SS[.ffffff]", one character per element.
str_timedelta(td) ==
    LET hh == td.seconds \div 3600
        mm == (td.seconds \div 60) % 60
        ss == td.seconds % 60
        clockText == Decimal(hh) \o <<":">> \o Padded(mm, 2) \o <<":">> \o Padded(ss, 2)
        plural == IF td.days # 1 /\ td.days # -1 THEN <<"s">> ELSE <<>>
        dayText == IF td.days # 0
                   THEN Signed(td.days) \o <<" ", "d", "a", "y">> \o plural \o <<",", " ">>
                   ELSE <<>>
        fraction == IF td.microseconds # 0
                    THEN <<".">> \o Padded(td.microseconds, 6)
                    ELSE <<>>
    IN dayText \o clockText \o fraction

\* text.split(".")[0]
RECURSIVE BeforeDot(_)
BeforeDot(text) ==
    IF text = <<>> \/ Head(text) = "." THEN <<>>
    ELSE <<Head(text)>> \o BeforeDot(Tail(text))

\* get_execution_time(start, end)
get_execution_time(start, end) ==
    LET diff == Subtract(end, start)
        td == timedelta(diff.value)
    IN IF ~diff.ok \/ ~td.ok
       THEN [outcome |-> "TypeError", text |-> <<>>]
       ELSE [outcome |-> "returned", text |-> BeforeDot(str_timedelta(td))]

TimeIdle ==
    /\ timeArgs = <<TimeValue("float", 0), TimeValue("float", 0)>>
    /\ timeLast = [outcome |-> "none", text |-> <<>>]

TimeInit ==
    /\ \E k \in {"datetime", "float"}, s \in Instants, e \in Instants :
           timeArgs = <<TimeValue(k, s), TimeValue(k, e)>>
    /\ timeLast = [outcome |-> "none", text |-> <<>>]

GetExecutionTime ==
    /\ timeLast.outcome = "none"
    /\ timeLast' = get_execution_time(timeArgs[1], timeArgs[2])
    /\ UNCHANGED <<timeArgs, dbVars, logVars, appVars>>

TimeNext ==
    \/ GetExecutionTime

(***************************************************************************)
(*                           Specifications                                *)
(***************************************************************************)
InitDb == DbIdle /\ LogIdle /\ AppIdle /\ TimeIdle
SpecDb == InitDb /\ [][DbNext]_vars

InitLogger == DbIdle /\ LogIdle /\ AppIdle /\ TimeIdle
SpecLogger == InitLogger /\ [][LogNext]_vars

InitApp == DbIdle /\ LogIdle /\ AppInit /\ TimeIdle
SpecApp == InitApp /\ [][AppNext]_vars

InitTime == DbIdle /\ LogIdle /\ AppIdle /\ TimeInit
SpecTime == InitTime /\ [][TimeNext]_vars

(***************************************************************************)
(*                              Properties                                 *)
(***************************************************************************)
ServerOverloads == {"cred", "trusted"}

\* C1: write_to_mssql_db called with a value table of zero rows raises
\* ValueError, whatever the table name and the column list, in each of its
\* three overloads; no statement is executed and nothing is committed.
C1_EmptyWriteRaisesValueError ==
    (dbLast.op = "write" /\ dbLast.nrows = 0) =>
        /\ dbLast.r.outcome = "ValueError"
        /\ dbLast.r.executed = 0
        /\ dbLast.r.committed = <<>>

\* C1, its case: the trusted-authentication overload, handed an empty table
\* for a table that does not exist, has raised ValueError.
C1_Witness ==
    /\ dbLast.op = "write" /\ dbLast.overload = "trusted"
    /\ dbLast.nrows = 0 /\ dbLast.table_name = "missing"
    /\ dbLast.column_list = <<"id">>
    /\ dbLast.r.outcome = "ValueError"

\* C2: every read or write call given server parameters opens exactly one
\* connection and has closed it when the call ends, whether it returned or
\* raised; no sequence of such calls leaves a connection open.
C2_OwnConnectionAlwaysClosed ==
    /\ dbLast.overload \in ServerOverloads =>
           (dbLast.r.opened = 1 /\ dbLast.r.closed = 1)
    /\ helperConns = 0

\* C9: read_from_mssql_db given a connection handle executes the query once
\* and returns a table whose columns are the names of the cursor description
\* in order and whose rows are the fetched rows in fetch order (zero rows
\* give an empty table with those columns); the handle stays open.
C9_ReadReturnsFetchedRows ==
    (dbLast.op = "read" /\ dbLast.overload = "con" /\ dbLast.r.outcome = "returned") =>
        /\ dbLast.r.executed = 1
        /\ dbLast.r.frame.columns =
               [i \in 1..Len(dbLast.r.description) |-> dbLast.r.description[i][1]]
        /\ dbLast.r.frame.rows = dbLast.r.fetched
        /\ callerConn = "open"

HandlerCount(logger, kind) ==
    Cardinality({i \in 1..Len(logger.handlers) : logger.handlers[i] = kind})

\* C4: whenever get_logger returns, the logger has exactly one file handler
\* if write_to_file and none otherwise, exactly one console handler if
\* write_to_console and none otherwise, and no other handler, in any sequence
\* of calls, repeated calls for the same log path included.
C4_ReturnedLoggerHasExpectedHandlers ==
    logLast.outcome = "returned" =>
        /\ HandlerCount(logLast.logger, "FileHandler") =
               (IF logLast.write_to_file THEN 1 ELSE 0)
        /\ HandlerCount(logLast.logger, "StreamHandler") =
               (IF logLast.write_to_console THEN 1 ELSE 0)
        /\ Len(logLast.logger.handlers) =
               (IF logLast.write_to_file THEN 1 ELSE 0)
               + (IF logLast.write_to_console THEN 1 ELSE 0)

Classified == Len(page) >= 4 /\ page[4].op = "classifer"

\* C6: for a captured image classifer returns one of the four labels Angry,
\* Happy, Neutral, Sad, namely class_dict at the index (0 Angry, 1 Happy,
\* 2 Neutral, 3 Sad) of the maximum entry of the model's output, the first
\* such index when several entries are equal.
C6_ClassifierReturnsArgmaxLabel ==
    Classified =>
        /\ page[4].label \in {"Angry", "Happy", "Neutral", "Sad"}
        /\ \E i \in 0..3 :
               /\ page[4].label = class_dict[i]
               /\ \A j \in 0..3 : img.scores[j + 1] <= img.scores[i + 1]
               /\ \A j \in 0..3 : j < i => img.scores[j + 1] < img.scores[i + 1]

\* C6, its case: an image whose two middle scores tie for the maximum has
\* been classified Happy.
C6_Witness ==
    /\ Classified
    /\ img.scores = <<0, 1, 1, 0>>
    /\ page[4].label = "Happy"

Fetched == Len(page) >= 6 /\ page[6].op = "fetch_song_list"

\* C7: fetch_song_list for an emotion label returns a table without ID
\* column whose rows and other columns are those of the first file listed in
\* <Songs root>/<label>, a file of that label's directory and of no other.
C7_SongListIsFirstFileWithoutId ==
    Fetched =>
        LET root == Lookup(configs, "data.Songs")
            emo == page[6].label
            first == songsDir[<<root, emo>>][1]
            sheet == read_excel(<<root, emo, first>>)
            frame == page[6].frame
            kept == {j \in 1..Len(sheet.columns) : sheet.columns[j] # "ID"}
        IN /\ "ID" \notin Range(frame.columns)
           /\ Len(frame.columns) = Cardinality(kept)
           /\ Len(frame.rows) = Len(sheet.rows)
           /\ \A j \in kept :
                  LET at == Cardinality({k \in kept : k <= j})
                  IN /\ frame.columns[at] = sheet.columns[j]
                     /\ \A r \in 1..Len(sheet.rows) :
                            /\ Len(frame.rows[r]) = Cardinality(kept)
                            /\ frame.rows[r][at] = sheet.rows[r][j]
                            /\ frame.rows[r][at] = <<sheet.columns[j], root, emo, first, r>>

\* C7, its case: the Sad playlist has been fetched from a directory that
\* lists file 2 (ID in its second column) before file 1.
C7_Witness ==
    /\ Fetched
    /\ page[6].label = "Sad"
    /\ songsDir[<<Lookup(configs, "data.Songs"), "Sad">>] = <<2, 1>>

Ops(p) == [i \in 1..Len(p) |-> p[i].op]

\* C8: a run of main with a captured image preprocesses, classifies, shows
\* one label naming the classified emotion, fetches the song list of that
\* emotion and shows that one table, in this order; a run without an image
\* shows neither label nor table, whatever the run before it showed.
C8_RunShowsOneLabelThenItsTable ==
    /\ img = NoImage =>
           \A i \in 1..Len(page) : page[i].op \notin {"subheader", "dataframe"}
    /\ img # NoImage =>
           /\ Ops(page) = << "markdown", "camera_input", "preprocess", "classifer",
                             "subheader", "fetch_song_list", "dataframe" >>
           /\ page[5].label = page[4].label
           /\ page[6].label = page[4].label
           /\ page[7].frame = page[6].frame

\* C8, its case: a run has shown the label Happy and then a table.
C8_Witness ==
    /\ Len(page) = 7
    /\ page[5].op = "subheader" /\ page[5].label = "Happy" /\ page[5].color = "green"
    /\ page[7].op = "dataframe" /\ page[7].frame.rows # <<>>

\* The running time of a difference d (in tenths of a second, under a day)
\* as HH:MM:SS.
IsHHMMSS(text, d) ==
    LET secs == d \div 10
    IN text = Padded(secs \div 3600, 2) \o <<":">> \o Padded((secs \div 60) % 60, 2)
              \o <<":">> \o Padded(secs % 60, 2)

\* C10: get_execution_time given a start and an end datetime.datetime, end
\* not before start, does not raise and returns the running time between
\* them as HH:MM:SS, fractional seconds removed.
C10_DatetimesGiveRunningTime ==
    (/\ timeLast.outcome # "none"
     /\ timeArgs[1].kind = "datetime" /\ timeArgs[2].kind = "datetime"
     /\ timeArgs[1].v <= timeArgs[2].v
     /\ timeArgs[2].v - timeArgs[1].v < TenthsPerDay) =>
        /\ timeLast.outcome = "returned"
        /\ IsHHMMSS(timeLast.text, timeArgs[2].v - timeArgs[1].v)

====
